---- MODULE Spec2Model ----
(***************************************************************************)
(* Model of simple_email/main.py: the helper parse_email_addr, the Email   *)
(* message builder and EmailClient.send.                                   *)
(*                                                                         *)
(* A Python str is a sequence of one-character strings; a Python list is   *)
(* a sequence; an optional value (None or a value) is a sequence of length *)
(* at most one.                                                            *)
(***************************************************************************)
EXTENDS Naturals, Sequences, FiniteSets

VARIABLES
    email,      \* the Email object: its headers and the MIME part list
    added,      \* history: attachments of the add calls that returned normally
    last,       \* history: the last add_attachment* call and its outcome
    pc,         \* position inside EmailClient.send ("idle" between calls)
    call,       \* the arguments of the current / last send call
    server,     \* the smtplib.SMTP connection of the current / last send call
    log,        \* transport events of the current / last send call, in order
    handed,     \* what the call handed to server.sendmail (None or the args)
    outcome,    \* how the last send call ended: "none", "returned" or an error
    pin,        \* parse_email_addr: the input string
    pout,       \* parse_email_addr: None or the result
    pout2       \* parse_email_addr: None or the result of parsing the result

vars == <<email, added, last, pc, call, server, log, handed, outcome, pin, pout, pout2>>

-----------------------------------------------------------------------------
(* Bounds of the model.                                                    *)

\* longest input string given to parse_email_addr
MaxLen == 4
\* most attachments appended to one Email
MaxAttach == 2

-----------------------------------------------------------------------------
(* Python values.                                                          *)

None == <<>>
Some(x) == <<x>>

\* str.strip() strips whitespace; the only whitespace of the model is " "
Whitespace == {" "}

RECURSIVE LStrip(_)
LStrip(s) ==
    IF s # <<>> /\ Head(s) \in Whitespace THEN LStrip(Tail(s)) ELSE s

RECURSIVE RStrip(_)
RStrip(s) ==
    IF s # <<>> /\ s[Len(s)] \in Whitespace
    THEN RStrip(SubSeq(s, 1, Len(s) - 1))
    ELSE s

Strip(s) == RStrip(LStrip(s))

\* c in s
Contains(s, c) == \E i \in 1..Len(s) : s[i] = c

\* s.find(c), 1-based; only used when c is in s
Find(s, c) == CHOOSE i \in 1..Len(s) : s[i] = c /\ \A j \in 1..(i - 1) : s[j] # c

\* s.split(c): never empty, "".split(c) is [""]
RECURSIVE Split(_, _)
Split(s, c) ==
    IF ~Contains(s, c)
    THEN <<s>>
    ELSE <<SubSeq(s, 1, Find(s, c) - 1)>> \o Split(SubSeq(s, Find(s, c) + 1, Len(s)), c)

\* sep.join(list)
RECURSIVE Join(_, _)
Join(sep, list) ==
    IF list = <<>> THEN <<>>
    ELSE IF Len(list) = 1 THEN list[1]
    ELSE list[1] \o sep \o Join(sep, Tail(list))

\* list(filter(None, list)) on a list of str: drops the empty strings
FilterNone(list) == SelectSeq(list, LAMBDA x : x # <<>>)

-----------------------------------------------------------------------------
(* parse_email_addr                                                        *)

\* a plausible slip: the branch without '<' returns the string unstripped
parse_email_addr_nostrip(s) ==
    IF Contains(s, "<")
    THEN Strip(Strip(Split(Split(s, "<")[2], ">")[1]))
    ELSE s

parse_email_addr(s) ==
    IF Contains(s, "<")
    THEN Strip(Strip(Split(Split(s, "<")[2], ">")[1]))
    ELSE Strip(s)

-----------------------------------------------------------------------------
(* Results of calls that may raise.                                        *)

Ok(v) == [err |-> "none", val |-> <<v>>]
Raise(e) == [err |-> e, val |-> <<>>]

-----------------------------------------------------------------------------
(* Files on disk, mimetypes.guess_type and pathlib.Path(path).name.        *)

\* the files that open(path, 'rb') can read, with their contents (bytes)
FileSystem ==
    [p \in { <<"d", "/", "f", ".", "c", "s", "v">>,
             <<"d", "/", "f", ".", "q">>,
             <<"d", ".", "c", "s", "v", "/", "f">> }
       |-> IF Len(p) = 5 THEN <<>> ELSE <<72, 105>>]

Readable(path) == path \in DOMAIN FileSystem

\* the paths the caller passes: the readable files and one that does not exist
PathInputs == DOMAIN FileSystem \cup { <<"n", ".", "c", "s", "v">> }

\* index of the last occurrence of c in s, 0 when there is none
LastIndex(s, c) ==
    IF Contains(s, c)
    THEN CHOOSE i \in 1..Len(s) : s[i] = c /\ \A j \in (i + 1)..Len(s) : s[j] # c
    ELSE 0

\* Path(path).name: the final segment of the path
PathName(path) == SubSeq(path, LastIndex(path, "/") + 1, Len(path))

\* the extension of the final segment, with its dot; "" when there is none
PathExt(path) ==
    LET name == PathName(path)
        dot  == LastIndex(name, ".")
    IN  IF dot > 1 THEN SubSeq(name, dot, Len(name)) ELSE <<>>

\* guess_type(path)[0]: None when the extension is not in the type map
guess_type(path) ==
    IF PathExt(path) = <<".", "c", "s", "v">>
    THEN Some(<<"t", "e", "x", "t", "/", "c", "s", "v">>)
    ELSE None

\* ctype.split('/', 1)
SplitOnce(s, c) ==
    IF Contains(s, c)
    THEN <<SubSeq(s, 1, Find(s, c) - 1), SubSeq(s, Find(s, c) + 1, Len(s))>>
    ELSE <<s>>

\* the names bound at module level in main.py
ModuleNames ==
    {"smtplib", "MIMEMultipart", "MIMEText", "MIMEBase", "encode_base64",
     "guess_type", "Path", "List", "Tuple", "Union", "parse_email_addr",
     "path_to_bytes", "path_to_attachment_components", "EmailClient", "Email"}

path_to_bytes(path) ==
    IF Readable(path) THEN Ok(FileSystem[path]) ELSE Raise("FileNotFoundError")

\* line 69 runs on the guess before the file is touched; line 70 evaluates the
\* name `project` before path_to_bytes is entered
path_to_attachment_components(path) ==
    LET ctype == guess_type(path) IN
    IF ctype = None
    THEN Raise("AttributeError")
    ELSE IF "project" \notin ModuleNames
    THEN Raise("NameError")
    ELSE Raise("TypeError")

-----------------------------------------------------------------------------
(* base64, as email.encoders.encode_base64 applies it to a payload.        *)
(* A byte is a number in 0..255; the encoded text is a sequence of sextets *)
(* 0..63, with 64 standing for the padding character.                      *)

Pad == 64

RECURSIVE B64Encode(_)
B64Encode(data) ==
    IF data = <<>> THEN <<>>
    ELSE LET b1 == data[1]
             b2 == IF Len(data) >= 2 THEN data[2] ELSE 0
             b3 == IF Len(data) >= 3 THEN data[3] ELSE 0
             n  == b1 * 65536 + b2 * 256 + b3
             q  == << n \div 262144, (n \div 4096) % 64,
                      IF Len(data) >= 2 THEN (n \div 64) % 64 ELSE Pad,
                      IF Len(data) >= 3 THEN n % 64 ELSE Pad >>
         IN  q \o B64Encode(SubSeq(data, 4, Len(data)))

RECURSIVE B64Decode(_)
B64Decode(text) ==
    IF Len(text) < 4 THEN <<>>
    ELSE LET s3 == IF text[3] = Pad THEN 0 ELSE text[3]
             s4 == IF text[4] = Pad THEN 0 ELSE text[4]
             n  == text[1] * 262144 + text[2] * 4096 + s3 * 64 + s4
             bs == << n \div 65536, (n \div 256) % 256, n % 256 >>
             k  == IF text[3] = Pad THEN 1 ELSE IF text[4] = Pad THEN 2 ELSE 3
         IN  SubSeq(bs, 1, k) \o B64Decode(SubSeq(text, 5, Len(text)))

-----------------------------------------------------------------------------
(* Email                                                                   *)

\* MIMEText(body, body_type, body_encoding)
MIMEText(body, body_type) ==
    [maintype |-> <<"t", "e", "x", "t">>, subtype |-> body_type,
     payload |-> body, cte |-> "7bit", filename |-> None]

\* MIMEBase(maintype, subtype), set_payload, encode_base64, add_header
MIMEAttachment(data, file_name, maintype, subtype) ==
    [maintype |-> maintype, subtype |-> subtype,
     payload |-> B64Encode(data), cte |-> "base64", filename |-> Some(file_name)]

\* to_addr / cc given as one str
HeaderFromStr(s) == s
\* to_addr / cc given as a list of str
HeaderFromList(l) == Join(<<",", " ">>, l)

FromInputs == { <<"a">>, <<"N", " ", "<", "a", ">">> }

ToStrInputs == { <<"a", ",">> }
ToListInputs == { << <<"N", " ", "<", "b", ">">>, <<"a">> >>, << <<"a">>, <<>> >> }

CcStrInputs == { <<>> }
CcListInputs == { << <<"c">>, <<"d">> >> }

ToHeaders ==
    {HeaderFromStr(s) : s \in ToStrInputs} \cup {HeaderFromList(l) : l \in ToListInputs}
CcHeaders ==
    {HeaderFromStr(s) : s \in CcStrInputs} \cup {HeaderFromList(l) : l \in CcListInputs}

Subject == <<"s">>
Body == <<"h", "i">>
BodyTypes == { <<"p", "l", "a", "i", "n">> }

\* Email.__init__
EmailInit(from_addr, to_header, cc_header, body_type) ==
    [Subject |-> Subject, From |-> from_addr, To |-> to_header, Cc |-> cc_header,
     parts |-> << MIMEText(Body, body_type) >>]

\* a plausible slip: the new part is put in front of the part list
AttachFirst(parts, part) == <<part>> \o parts

\* MIMEMultipart.attach(part)
Attach(parts, part) == Append(parts, part)

\* Email.__str__: the headers in the order set, then the parts in order
AsString(e) ==
    [headers |-> << <<"Subject", e.Subject>>, <<"From", e.From>>,
                    <<"To", e.To>>, <<"Cc", e.Cc>> >>,
     parts |-> e.parts]

\* the defaults of add_attachment: maintype 'application', subtype 'octet-stream'
DefaultType ==
    << <<"a", "p", "p", "l", "i", "c", "a", "t", "i", "o", "n">>,
       <<"o", "c", "t", "e", "t", "-", "s", "t", "r", "e", "a", "m">> >>
CsvType == << <<"t", "e", "x", "t">>, <<"c", "s", "v">> >>

\* (data, file_name, maintype, subtype) as the caller of add_attachment gives them
AttachInputs ==
    { << <<>>, <<"f">>, DefaultType[1], DefaultType[2] >>,
      << <<72, 105>>, <<"g">>, CsvType[1], CsvType[2] >> }

NoCall == [op |-> "none", path |-> <<>>, err |-> "none", before |-> <<>>]

\* Email.add_attachment
add_attachment ==
    /\ pc = "idle"
    /\ Len(email.parts) <= MaxAttach
    /\ \E a \in AttachInputs :
          LET attachment == MIMEAttachment(a[1], a[2], a[3], a[4]) IN
          /\ email' = [email EXCEPT !.parts = Attach(@, attachment)]
          /\ added' = Append(added, attachment)
          /\ last' = [op |-> "add_attachment", path |-> <<>>, err |-> "none",
                      before |-> email.parts]
    /\ UNCHANGED <<pc, call, server, log, handed, outcome, pin, pout, pout2>>

\* Email.add_attachment_from_path
add_attachment_from_path ==
    /\ pc = "idle"
    /\ \E path \in PathInputs :
          LET components == path_to_attachment_components(path) IN
          /\ IF components.err = "none"
             THEN LET c == components.val[1]
                      attachment == MIMEAttachment(c[1], c[2], c[3], c[4])
                  IN  /\ Len(email.parts) <= MaxAttach
                      /\ email' = [email EXCEPT !.parts = Attach(@, attachment)]
                      /\ added' = Append(added, attachment)
             ELSE UNCHANGED <<email, added>>
          /\ last' = [op |-> "add_attachment_from_path", path |-> path,
                      err |-> components.err, before |-> email.parts]
    /\ UNCHANGED <<pc, call, server, log, handed, outcome, pin, pout, pout2>>

-----------------------------------------------------------------------------
(* EmailClient.send                                                        *)

\* msg given as a str of ASCII characters, or as bytes
PlainText == <<"x">>
PlainBytes == <<120>>

MsgKinds == {"Email", "str", "bytes"}
FromAddrInputs == { None, Some(<<"b">>), Some(<<>>) }
ToAddrsInputs == { None, Some(<< <<"z">> >>) }

NoConn == [open |-> FALSE, tls |-> FALSE, auth |-> FALSE]
NoSend == [kind |-> "Email", from_addr |-> None, to_addrs |-> None]

\* a plausible slip: `from_addr or msg.email['From']`, an empty from_addr is lost
ResolveFromTruthy(kind, from_addr, e) ==
    IF from_addr # None /\ from_addr[1] # <<>>
    THEN Ok(from_addr[1])
    ELSE IF kind = "Email" THEN Ok(e.From) ELSE Raise("AttributeError")

\* line 129: a str or bytes msg has no attribute `email`
ResolveFrom(kind, from_addr, e) ==
    IF from_addr # None
    THEN Ok(from_addr[1])
    ELSE IF kind = "Email" THEN Ok(e.From) ELSE Raise("AttributeError")

ParseAll(list) == [i \in 1..Len(list) |-> parse_email_addr(list[i])]

\* lines 130-131: the to_addrs argument is not read
ResolveTo(kind, to_addrs, e) ==
    IF kind = "Email"
    THEN Ok(ParseAll(FilterNone(Split(e.To, ",") \o Split(e.Cc, ","))))
    ELSE Raise("AttributeError")

\* line 132: str(msg); str() of bytes is its repr
StrOf(kind, e) ==
    IF kind = "Email" THEN AsString(e)
    ELSE IF kind = "str" THEN PlainText
    ELSE <<"b", "'", "x", "'">>

\* a plausible slip: a failed step is swallowed and the body goes on
AfterStepSwallow(step, ok) ==
    CASE step = "starttls" -> "login"
      [] step = "login"    -> "transmit"
      [] OTHER             -> "exit"

\* the body of the with statement: an exception leaves it at once
AfterStep(step, ok) ==
    IF ~ok THEN "exit"
    ELSE CASE step = "starttls" -> "login"
           [] step = "login"    -> "transmit"
           [] OTHER             -> "exit"

\* a plausible slip: no with statement, the connection is closed on success only
ExitConnOnSuccess(s, err) == IF err = "none" THEN [s EXCEPT !.open = FALSE] ELSE s

\* SMTP.__exit__: close() runs in a finally clause, whatever ended the body
ExitConn(s, err) == [s EXCEPT !.open = FALSE]

\* a call to EmailClient.send begins
send_call ==
    /\ pc = "idle"
    /\ \E kind \in MsgKinds, from_addr \in FromAddrInputs, to_addrs \in ToAddrsInputs :
          call' = [kind |-> kind, from_addr |-> from_addr, to_addrs |-> to_addrs]
    /\ pc' = "connect"
    /\ server' = NoConn
    /\ log' = <<>>
    /\ handed' = None
    /\ outcome' = "none"
    /\ UNCHANGED <<email, added, last, pin, pout, pout2>>

\* line 125: smtplib.SMTP(host, port) connects; a failure raises before the
\* with body is entered, with no connection left
smtp_connect ==
    /\ pc = "connect"
    /\ \/ /\ server' = [open |-> TRUE, tls |-> FALSE, auth |-> FALSE]
          /\ log' = Append(log, "connect")
          /\ pc' = "starttls"
          /\ UNCHANGED outcome
       \/ /\ log' = Append(log, "connect_failed")
          /\ outcome' = "SMTPConnectError"
          /\ pc' = "idle"
          /\ UNCHANGED server
    /\ UNCHANGED <<email, added, last, call, handed, pin, pout, pout2>>

\* line 126: server.starttls()
smtp_starttls ==
    /\ pc = "starttls"
    /\ \E ok \in BOOLEAN :
          /\ server' = [server EXCEPT !.tls = ok]
          /\ log' = Append(log, IF ok THEN "starttls" ELSE "starttls_failed")
          /\ outcome' = IF ok THEN outcome ELSE "SMTPException"
          /\ pc' = AfterStep("starttls", ok)
    /\ UNCHANGED <<email, added, last, call, handed, pin, pout, pout2>>

\* line 127: server.login(login, password)
smtp_login ==
    /\ pc = "login"
    /\ \E ok \in BOOLEAN :
          /\ server' = [server EXCEPT !.auth = ok]
          /\ log' = Append(log, IF ok THEN "login" ELSE "login_failed")
          /\ outcome' = IF ok THEN outcome ELSE "SMTPAuthenticationError"
          /\ pc' = AfterStep("login", ok)
    /\ UNCHANGED <<email, added, last, call, handed, pin, pout, pout2>>

\* lines 129-135: resolve the sender and the recipients, serialize, sendmail
smtp_transmit ==
    /\ pc = "transmit"
    /\ LET f == ResolveFrom(call.kind, call.from_addr, email)
           t == ResolveTo(call.kind, call.to_addrs, email)
       IN  IF f.err # "none" \/ t.err # "none"
           THEN /\ outcome' = IF f.err # "none" THEN f.err ELSE t.err
                /\ pc' = AfterStep("transmit", FALSE)
                /\ UNCHANGED <<log, handed>>
           ELSE /\ handed' = Some([from_addr |-> f.val[1], to_addrs |-> t.val[1],
                                   msg |-> StrOf(call.kind, email)])
                /\ \E ok \in BOOLEAN :
                      /\ log' = Append(log, IF ok THEN "sendmail" ELSE "sendmail_failed")
                      /\ outcome' = IF ok THEN outcome ELSE "SMTPDataError"
                      /\ pc' = AfterStep("transmit", ok)
    /\ UNCHANGED <<email, added, last, call, server, pin, pout, pout2>>

\* leaving the with statement: SMTP.__exit__ sends QUIT and closes; a QUIT
\* answered by anything but 221 raises after the close
smtp_exit ==
    /\ pc = "exit"
    /\ server' = ExitConn(server, outcome)
    /\ \E quit_ok \in BOOLEAN :
          /\ log' = Append(log, IF quit_ok THEN "quit" ELSE "quit_failed")
          /\ outcome' = IF ~quit_ok THEN "SMTPResponseException"
                        ELSE IF outcome = "none" THEN "returned" ELSE outcome
    /\ pc' = "idle"
    /\ UNCHANGED <<email, added, last, call, handed, pin, pout, pout2>>

-----------------------------------------------------------------------------
(* The program: an Email is constructed, attachments are added and the     *)
(* message is sent, any number of times, by one thread.                    *)

Init ==
    /\ \E from_addr \in FromInputs, to_header \in ToHeaders, cc_header \in CcHeaders,
          body_type \in BodyTypes :
          email = EmailInit(from_addr, to_header, cc_header, body_type)
    /\ added = <<>>
    /\ last = NoCall
    /\ pc = "idle"
    /\ call = NoSend
    /\ server = NoConn
    /\ log = <<>>
    /\ handed = None
    /\ outcome = "none"
    /\ pin = <<>>
    /\ pout = None
    /\ pout2 = None

Next ==
    \/ add_attachment
    \/ add_attachment_from_path
    \/ send_call
    \/ smtp_connect
    \/ smtp_starttls
    \/ smtp_login
    \/ smtp_transmit
    \/ smtp_exit

Spec == Init /\ [][Next]_vars

-----------------------------------------------------------------------------
(* parse_email_addr applied to every string of bounded length.             *)

ParseChars == {"a", " ", "<", ">"}

Strings(n) == UNION { [1..k -> ParseChars] : k \in 0..n }

InitParse ==
    /\ pin \in Strings(MaxLen)
    /\ pout = None
    /\ pout2 = None
    /\ email = EmailInit(<<"a">>, <<"a">>, <<>>, <<"p", "l", "a", "i", "n">>)
    /\ added = <<>>
    /\ last = NoCall
    /\ pc = "idle"
    /\ call = NoSend
    /\ server = NoConn
    /\ log = <<>>
    /\ handed = None
    /\ outcome = "none"

\* parse_email_addr(pin)
parse_call ==
    /\ pout = None
    /\ pout' = Some(parse_email_addr(pin))
    /\ UNCHANGED <<email, added, last, pc, call, server, log, handed, outcome, pin, pout2>>

\* parse_email_addr applied to its own result
parse_again ==
    /\ pout # None
    /\ pout2 = None
    /\ pout2' = Some(parse_email_addr(pout[1]))
    /\ UNCHANGED <<email, added, last, pc, call, server, log, handed, outcome, pin, pout>>

NextParse == parse_call \/ parse_again

SpecParse == InitParse /\ [][NextParse]_vars

-----------------------------------------------------------------------------
(* Properties of EmailClient.send, checked under Spec.                     *)

Count(seq, set) == Cardinality({i \in 1..Len(seq) : seq[i] \in set})
InLog(e) == \E i \in 1..Len(log) : log[i] = e

\* C1: when the caller passes an explicit to_addrs list, the recipient list
\* handed to the transport is exactly that list.
C1_ExplicitToAddrsHanded ==
    (handed # None /\ call.to_addrs # None)
        => handed[1].to_addrs = call.to_addrs[1]

\* C2: when to_addrs is not given, the recipients handed to the transport are
\* the comma-separated entries of To then Cc, each reduced to its bare
\* address, with empty entries discarded: no recipient is the empty string.
C2_DerivedRecipientsNonEmpty ==
    (handed # None /\ call.to_addrs = None)
        => /\ \A i \in 1..Len(handed[1].to_addrs) : handed[1].to_addrs[i] # <<>>
           /\ handed[1].to_addrs =
                 FilterNone(ParseAll(Split(email.To, ",") \o Split(email.Cc, ",")))

\* C5: the connection a send call opened is closed when the call has returned
\* or raised, whatever the exit path, and a call opens at most one connection.
C5_ConnectionClosedAfterSend ==
    /\ pc \in {"idle", "connect"} => ~server.open
    /\ Count(log, {"connect"}) <= 1

C5_Witness_ClosedAfterAuthFailure ==
    /\ pc = "idle"
    /\ log = <<"connect", "starttls", "login_failed", "quit">>
    /\ outcome = "SMTPAuthenticationError"
    /\ ~server.open

\* the complete event sequences of one send call
Quits == {"quit", "quit_failed"}
CompleteLogs ==
    { <<"connect_failed">> }
    \cup { <<"connect", "starttls_failed", q>> : q \in Quits }
    \cup { <<"connect", "starttls", "login_failed", q>> : q \in Quits }
    \cup { <<"connect", "starttls", "login", q>> : q \in Quits }
    \cup { <<"connect", "starttls", "login", t, q>> :
              t \in {"sendmail", "sendmail_failed"}, q \in Quits }
IsPrefix(a, b) == Len(a) <= Len(b) /\ a = SubSeq(b, 1, Len(a))

\* C6: within one send call the steps are connect, handshake, authenticate,
\* transmit, close, in that order; the message is handed to the transport at
\* most once and only on a connection whose handshake and authentication
\* succeeded; a failed connect, handshake or authentication is raised to the
\* caller with nothing transmitted and no second attempt.
C6_StepsInOrder ==
    /\ \E full \in CompleteLogs : IsPrefix(log, full)
    /\ (pc = "idle" /\ log # <<>>) => log \in CompleteLogs
    /\ (handed # None) <=> (InLog("sendmail") \/ InLog("sendmail_failed"))
    /\ (handed # None) => (server.tls /\ server.auth /\ (pc = "exit" => server.open))
    /\ (InLog("connect_failed") \/ InLog("starttls_failed") \/ InLog("login_failed"))
          => /\ handed = None
             /\ outcome \notin {"none", "returned"}

C6_Witness_Transmitted ==
    /\ pc = "idle"
    /\ log = <<"connect", "starttls", "login", "sendmail", "quit">>
    /\ handed # None
    /\ outcome = "returned"

\* C8: a send call whose msg is a str or bytes, with from_addr and to_addrs
\* given, hands that sender and those recipients to the transport once the
\* login has succeeded; it does not fail on the message.
C8_PlainMessageTransmitted ==
    (/\ pc = "idle"
     /\ call.kind \in {"str", "bytes"}
     /\ call.from_addr # None
     /\ call.to_addrs # None
     /\ InLog("login"))
        => /\ handed # None
           /\ handed[1].from_addr = call.from_addr[1]
           /\ handed[1].to_addrs = call.to_addrs[1]

\* C10: the sender handed to the transport is the from_addr argument when one
\* is given (it is not None), and the message's From header otherwise.
C10_SenderResolved ==
    handed # None
        => handed[1].from_addr =
              IF call.from_addr # None THEN call.from_addr[1] ELSE email.From

C10_Witness_ExplicitSender ==
    /\ handed # None
    /\ call.from_addr # None
    /\ handed[1].from_addr = call.from_addr[1]
    /\ handed[1].from_addr # email.From

-----------------------------------------------------------------------------
(* Properties of Email, checked under Spec.                                *)

IsAttachment(part) == part.filename # None /\ part.cte = "base64"
IsBody(part) == part = MIMEText(Body, part.subtype)

\* C3: add_attachment_from_path on a readable file of a known type returns
\* normally and appends exactly one attachment: the file's contents, the
\* guessed maintype/subtype, and the final segment of the path as filename.
C3_KnownTypeAttaches ==
    (/\ last.op = "add_attachment_from_path"
     /\ Readable(last.path)
     /\ guess_type(last.path) # None)
        => /\ last.err = "none"
           /\ Len(email.parts) = Len(last.before) + 1
           /\ SubSeq(email.parts, 1, Len(last.before)) = last.before
           /\ LET part == email.parts[Len(email.parts)]
                  type == SplitOnce(guess_type(last.path)[1], "/")
              IN  /\ B64Decode(part.payload) = FileSystem[last.path]
                  /\ part.maintype = type[1]
                  /\ part.subtype = type[2]
                  /\ part.filename = Some(PathName(last.path))
                  /\ ~Contains(part.filename[1], "/")

\* C7: add_attachment_from_path on a readable file whose type cannot be
\* guessed appends the attachment as application/octet-stream.
C7_UnknownTypeFallsBack ==
    (/\ last.op = "add_attachment_from_path"
     /\ Readable(last.path)
     /\ guess_type(last.path) = None)
        => /\ last.err = "none"
           /\ Len(email.parts) = Len(last.before) + 1
           /\ email.parts[Len(email.parts)].maintype = DefaultType[1]
           /\ email.parts[Len(email.parts)].subtype = DefaultType[2]

\* C4: the part list is always the one body part followed by the attachments
\* of the add calls that returned normally, in the order of the calls; a
\* failed call leaves the list as it was.
C4_BodyThenAttachmentsInOrder ==
    /\ Len(email.parts) = 1 + Len(added)
    /\ IsBody(email.parts[1])
    /\ Tail(email.parts) = added
    /\ \A i \in 2..Len(email.parts) : IsAttachment(email.parts[i])
    /\ last.err # "none" => email.parts = last.before

C4_Witness_TwoAttachmentsAndFailure ==
    /\ Len(added) = 2
    /\ added[1] # added[2]
    /\ last.op = "add_attachment_from_path"
    /\ last.err # "none"
    /\ Len(last.before) = 3

-----------------------------------------------------------------------------
(* Properties of parse_email_addr, checked under SpecParse.                *)

\* r is t with its surrounding whitespace removed
IsTrimOf(r, t) ==
    /\ r = <<>> \/ (r[1] \notin Whitespace /\ r[Len(r)] \notin Whitespace)
    /\ \E a \in 0..Len(t) : \E b \in 0..(Len(t) - a) :
          /\ r = SubSeq(t, a + 1, Len(t) - b)
          /\ \A k \in 1..a : t[k] \in Whitespace
          /\ \A k \in (Len(t) - b + 1)..Len(t) : t[k] \in Whitespace

\* the least index after `from` of a character of `set`, Len(s) + 1 when none
NextOf(s, set, from) ==
    IF \E j \in (from + 1)..Len(s) : s[j] \in set
    THEN CHOOSE j \in (from + 1)..Len(s) :
            s[j] \in set /\ \A k \in (from + 1)..(j - 1) : s[k] \notin set
    ELSE Len(s) + 1

FixedPoint == pout2 # None => pout2 = pout

\* C9 as stated: with a '<' in s, the result is the text between the first
\* '<' and the next '>', surrounding whitespace removed; otherwise s with
\* surrounding whitespace removed; and the result is a fixed point.
C9_BetweenFirstOpenAndNextClose ==
    pout # None
        => /\ IF Contains(pin, "<")
              THEN LET i == Find(pin, "<")
                       k == NextOf(pin, {">"}, i)
                   IN  k <= Len(pin) => IsTrimOf(pout[1], SubSeq(pin, i + 1, k - 1))
              ELSE IsTrimOf(pout[1], pin)
           /\ FixedPoint

\* C9 amended: with a '<' in s, the result is the text after the first '<' up
\* to the next '<' or '>' (or the end of s), surrounding whitespace removed;
\* otherwise s with surrounding whitespace removed; the result is a fixed point.
C9_BetweenFirstOpenAndNextBracket ==
    pout # None
        => /\ IF Contains(pin, "<")
              THEN LET i == Find(pin, "<")
                       k == NextOf(pin, {"<", ">"}, i)
                   IN  IsTrimOf(pout[1], SubSeq(pin, i + 1, k - 1))
              ELSE IsTrimOf(pout[1], pin)
           /\ FixedPoint

C9_Witness_SecondOpenBeforeClose ==
    /\ pout2 # None
    /\ Contains(pin, "<")
    /\ NextOf(pin, {"<"}, Find(pin, "<")) < NextOf(pin, {">"}, Find(pin, "<"))
    /\ NextOf(pin, {">"}, Find(pin, "<")) <= Len(pin)
    /\ pout[1] # <<>>

====
